---- MODULE Spec2Model ----
(***************************************************************************)
(* The progress-tracking and review-scheduling engine of mymandarin        *)
(* (src/src/hooks/useVocabulary.ts, lines 1-316): the per-word Progress    *)
(* map, the UserStats record, the two localStorage blobs and the queries   *)
(* over them; the way React mounts the hook, queues its state updates,     *)
(* renders and runs its effects; and the ratios the Statistics view        *)
(* (lines 340-545 of the same file) computes from the engine state.        *)
(*                                                                         *)
(* Time is an integer number of ticks, TicksPerDay ticks to a calendar     *)
(* day; an ISO timestamp is its tick, a YYYY-MM-DD date is its day number. *)
(* Date.setDate(getDate() + n) is taken as n days of TicksPerDay ticks.    *)
(* One handler reads the clock once.                                       *)
(***************************************************************************)
EXTENDS Integers, Sequences, FiniteSets, TLC

VARIABLES
    progress,   \* useState<UserProgress>: a function from the own keys to Progress
    stats,      \* useState<UserStats>
    store,      \* localStorage: per blob <<>> when absent, <<value>> when stored
    now,        \* the wall clock, in ticks
    phase,      \* "unmounted", "ready", or "crashed" once a handler, a render or an effect has thrown
    idCounter,  \* how many ids crypto.randomUUID() has handed out
    log,        \* history variable: per key, every review since the last reset, newest first
    sessionLog, \* history variable: every session since the last reset, newest first
    queue,      \* the state updates React has queued for the next render, oldest first
    unsaved,    \* the state hooks whose save effect is due after the last render
    quiz        \* the state of the Quiz component, with the calls it has made to its props

vars == <<progress, stats, store, now, phase, idCounter, log, sessionLog, queue, unsaved, quiz>>

-----------------------------------------------------------------------------
(* Bounds of the model *)

MaxReviews == 2
MaxTime == 2
MaxSessions == 1
TicksPerDay == 2
MaxWordReviews == 7
MaxWordSessions == 1
MaxWordTime == 1
MaxHistReviews == 11
MaxHistTime == 1
MaxSchedReviews == 5
MaxSchedReviewTime == 1
MaxSchedSlack == 2
MaxAccuracyReviews == 40
MaxManySessions == 150
MaxStreakReviews == 4
MaxStreakDays == 4
MaxYearDays == 366
MaxStartupReviews == 2
MaxStartupSessions == 1
MaxBatchQueue == 5
MaxBatchReviews == 3
MaxBatchSessions == 2
MaxQuizRuns == 1

(* Program constants *)

HistoryCap == 10
QuizHistoryCap == 100
StudyDaysCap == 365
MaxLevel == 5
NoDate == -1

-----------------------------------------------------------------------------
(* Helpers for JavaScript arrays *)

Range(s) == {s[i] : i \in 1..Len(s)}

Min(a, b) == IF a <= b THEN a ELSE b

Max(a, b) == IF a >= b THEN a ELSE b

Least(S) == CHOOSE x \in S : \A y \in S : x <= y

Greatest(S) == CHOOSE x \in S : \A y \in S : y <= x

\* Array.prototype.slice(0, n)
SliceFirst(s, n) == SubSeq(s, 1, Min(Len(s), n))

\* Array.prototype.slice(-n)
SliceLast(s, n) == SubSeq(s, Max(1, Len(s) - n + 1), Len(s))

\* Array.prototype.sort() on YYYY-MM-DD strings: ascending by date
SortAsc(s) == SortSeq(s, LAMBDA a, b : a < b)

\* Array.prototype.reverse()
Reverse(s) == [i \in 1..Len(s) |-> s[Len(s) + 1 - i]]

\* [...a].sort().reverse(): descending by date
SortDesc(s) == Reverse(SortAsc(s))

-----------------------------------------------------------------------------
(* The catalog and the inputs *)

\* getAllWords(): the catalog in its order
AllWords == <<"w1", "w2">>

Catalog == Range(AllWords)

\* A key of no catalog word that a caller may still pass
UnknownKeys == {"x", "y"}

\* Names every plain object inherits from Object.prototype: prev[name] is
\* defined (and truthy) although name is no own key of prev.
ObjectPrototypeKeys == {"constructor"}

Keys == Catalog \cup UnknownKeys \cup ObjectPrototypeKeys

Modes == {"flashcard", "character-to-meaning"}

\* responseTime?: number, <<>> for undefined
NoResponseTime == <<>>

ResponseTimes == {NoResponseTime}

-----------------------------------------------------------------------------
(* Pure functions of the engine *)

\* mutant: the level-3 interval of 7 days mistyped as 5
SrsInterval_Level3Short(level) ==
    CASE level = 0 -> 0
      [] level = 1 -> 1
      [] level = 2 -> 3
      [] level = 3 -> 5
      [] level = 4 -> 14
      [] level = 5 -> 30

SrsInterval(level) ==
    CASE level = 0 -> 0
      [] level = 1 -> 1
      [] level = 2 -> 3
      [] level = 3 -> 7
      [] level = 4 -> 14
      [] level = 5 -> 30

getNextReviewDate(srsLevel, t) == t + SrsInterval(srsLevel) * TicksPerDay

\* mutant: "<" for "<="
isDueForReview_Strict(nextReview, t) ==
    IF nextReview = NoDate THEN TRUE ELSE nextReview < t

isDueForReview(nextReview, t) ==
    IF nextReview = NoDate THEN TRUE ELSE nextReview <= t

getTodayDate(t) == t \div TicksPerDay

defaultStats ==
    [quizHistory   |-> <<>>,
     totalReviews  |-> 0,
     currentStreak |-> 0,
     longestStreak |-> 0,
     lastStudyDate |-> NoDate,
     studyDays     |-> <<>>]

emptyProgress == [k \in {} |-> 0]

ReviewRecord(t, correct, mode, rt) ==
    [date |-> t, correct |-> correct, mode |-> mode, responseTime |-> rt]

\* prev[pinyin] is an own Progress record
HasRecord(prev, pinyin) == pinyin \in DOMAIN prev

\* prev[pinyin] is truthy but no Progress record: its srsLevel is undefined, the
\* new level is NaN and SRS_LEVELS[NaN].interval throws a TypeError
UpdaterThrows(prev, pinyin) ==
    /\ ~HasRecord(prev, pinyin)
    /\ pinyin \in ObjectPrototypeKeys

\* mutant: the first review is not counted
newProgress_Uncounted(pinyin, correct, rec, t) ==
    [wordId         |-> pinyin,
     correctCount   |-> 0,
     incorrectCount |-> 0,
     lastReviewed   |-> t,
     nextReview     |-> getNextReviewDate(IF correct THEN 1 ELSE 0, t),
     srsLevel       |-> IF correct THEN 1 ELSE 0,
     streak         |-> IF correct THEN 1 ELSE 0,
     history        |-> <<rec>>]

\* the branch "if (!existing)"
newProgress(pinyin, correct, rec, t) ==
    [wordId         |-> pinyin,
     correctCount   |-> IF correct THEN 1 ELSE 0,
     incorrectCount |-> IF correct THEN 0 ELSE 1,
     lastReviewed   |-> t,
     nextReview     |-> getNextReviewDate(IF correct THEN 1 ELSE 0, t),
     srsLevel       |-> IF correct THEN 1 ELSE 0,
     streak         |-> IF correct THEN 1 ELSE 0,
     history        |-> <<rec>>]

\* mutant: the floor of an incorrect review is 0
newLevel_NoFloor(level, correct) ==
    IF correct THEN Min(MaxLevel, level + 1) ELSE Max(0, level - 2)

\* mutant: an incorrect review drops one level
newLevel_DropOne(level, correct) ==
    IF correct THEN Min(MaxLevel, level + 1) ELSE Max(1, level - 1)

\* mutant: the climb stops at level 4
newLevel_CapFour(level, correct) ==
    IF correct THEN Min(4, level + 1) ELSE Max(1, level - 2)

newLevel(level, correct) ==
    IF correct THEN Min(MaxLevel, level + 1) ELSE Max(1, level - 2)

\* mutant: an incorrect review leaves the streak as it was
newStreak_KeptOnMiss(streak, correct) == IF correct THEN streak + 1 ELSE streak

\* mutant: a correct review restarts the streak at 1
newStreak_Restart(streak, correct) == IF correct THEN 1 ELSE 0

newStreak(streak, correct) == IF correct THEN streak + 1 ELSE 0

\* mutant: the new record is appended and the cap drops it
newHistory_Append(history, rec) == SliceFirst(history \o <<rec>>, HistoryCap)

newHistory(history, rec) == SliceFirst(<<rec>> \o history, HistoryCap)

\* mutant: srsLevel is written as level + 1 instead of newLevel
updated_RawLevel(existing, correct, rec, t) ==
    [existing EXCEPT
        !.correctCount   = IF correct THEN @ + 1 ELSE @,
        !.incorrectCount = IF correct THEN @ ELSE @ + 1,
        !.lastReviewed   = t,
        !.nextReview     = getNextReviewDate(newLevel(existing.srsLevel, correct), t),
        !.srsLevel       = IF correct THEN @ + 1 ELSE newLevel(@, correct),
        !.streak         = newStreak(existing.streak, correct),
        !.history        = newHistory(existing.history, rec)]

\* mutant: a correct review clears incorrectCount
updated_ForgivesOnCorrect(existing, correct, rec, t) ==
    [existing EXCEPT
        !.correctCount   = IF correct THEN @ + 1 ELSE @,
        !.incorrectCount = IF correct THEN 0 ELSE @ + 1,
        !.lastReviewed   = t,
        !.nextReview     = getNextReviewDate(newLevel(existing.srsLevel, correct), t),
        !.srsLevel       = newLevel(existing.srsLevel, correct),
        !.streak         = newStreak(existing.streak, correct),
        !.history        = newHistory(existing.history, rec)]

\* mutant: an incorrect review clears correctCount
updated_ClearsCorrectOnMiss(existing, correct, rec, t) ==
    [existing EXCEPT
        !.correctCount   = IF correct THEN @ + 1 ELSE 0,
        !.incorrectCount = IF correct THEN @ ELSE @ + 1,
        !.lastReviewed   = t,
        !.nextReview     = getNextReviewDate(newLevel(existing.srsLevel, correct), t),
        !.srsLevel       = newLevel(existing.srsLevel, correct),
        !.streak         = newStreak(existing.streak, correct),
        !.history        = newHistory(existing.history, rec)]

\* the record "updated" built from an existing one
updated(existing, correct, rec, t) ==
    [existing EXCEPT
        !.correctCount   = IF correct THEN @ + 1 ELSE @,
        !.incorrectCount = IF correct THEN @ ELSE @ + 1,
        !.lastReviewed   = t,
        !.nextReview     = getNextReviewDate(newLevel(existing.srsLevel, correct), t),
        !.srsLevel       = newLevel(existing.srsLevel, correct),
        !.streak         = newStreak(existing.streak, correct),
        !.history        = newHistory(existing.history, rec)]

\* mutant: the spread of prev is left out
Assign_WithoutSpread(prev, pinyin, value) ==
    [k \in {pinyin} |-> value]

\* { ...prev, [pinyin]: value }
Assign(prev, pinyin, value) ==
    [k \in DOMAIN prev \cup {pinyin} |-> IF k = pinyin THEN value ELSE prev[k]]

\* the updater passed to setProgress by updateProgress
updateProgressMap(prev, pinyin, correct, mode, rt, t) ==
    LET rec == ReviewRecord(t, correct, mode, rt)
    IN  IF ~HasRecord(prev, pinyin)
        THEN Assign(prev, pinyin, newProgress(pinyin, correct, rec, t))
        ELSE Assign(prev, pinyin, updated(prev[pinyin], correct, rec, t))

\* mutant: the cap keeps the first 365 dates
newStudyDays_DropsNewest(studyDays, today) ==
    IF today \in Range(studyDays)
    THEN studyDays
    ELSE SliceFirst(Append(studyDays, today), StudyDaysCap)

newStudyDays(studyDays, today) ==
    IF today \in Range(studyDays)
    THEN studyDays
    ELSE SliceLast(Append(studyDays, today), StudyDaysCap)

\* mutant: the loop goes on after a gap
StreakWalk_NoBreak(sortedDays) ==
    1 + Cardinality({i \in 2..Len(sortedDays) : sortedDays[i - 1] - sortedDays[i] = 1})

\* the for loop over sortedDays (1-based here): from 1, one more for every
\* index from the second on, up to the first whose day is not the day after
\* the next one's
StreakWalk(sortedDays) ==
    LET breaks == {i \in 2..Len(sortedDays) : sortedDays[i - 1] - sortedDays[i] /= 1}
    IN  IF breaks = {} THEN Max(1, Len(sortedDays)) ELSE Least(breaks) - 1

computeStreak(studyDays) == StreakWalk(SortDesc(studyDays))

\* mutant: longestStreak follows currentStreak down
updateDailyStatsRec_LongestIsCurrent(prev, today) ==
    LET studyDays == newStudyDays(prev.studyDays, today)
        currentStreak == computeStreak(studyDays)
    IN  [prev EXCEPT
            !.totalReviews  = @ + 1,
            !.currentStreak = currentStreak,
            !.longestStreak = currentStreak,
            !.lastStudyDate = today,
            !.studyDays     = studyDays]

\* mutant: lastStudyDate is set by the first review only
updateDailyStatsRec_KeepsFirstDate(prev, today) ==
    LET studyDays == newStudyDays(prev.studyDays, today)
        currentStreak == computeStreak(studyDays)
    IN  [prev EXCEPT
            !.totalReviews  = @ + 1,
            !.currentStreak = currentStreak,
            !.longestStreak = Max(@, currentStreak),
            !.lastStudyDate = IF @ = NoDate THEN today ELSE @,
            !.studyDays     = studyDays]

\* the updater passed to setStats by updateDailyStats
updateDailyStatsRec(prev, today) ==
    LET studyDays == newStudyDays(prev.studyDays, today)
        currentStreak == computeStreak(studyDays)
    IN  [prev EXCEPT
            !.totalReviews  = @ + 1,
            !.currentStreak = currentStreak,
            !.longestStreak = Max(@, currentStreak),
            !.lastStudyDate = today,
            !.studyDays     = studyDays]

\* the updater passed to setStats by recordQuizSession
newSession(session, id, t) == [data |-> session, id |-> id, date |-> t]

\* mutant: the cap keeps the last 100 sessions
newQuizHistory_DropsNewest(quizHistory, session) ==
    SliceLast(<<session>> \o quizHistory, QuizHistoryCap)

newQuizHistory(quizHistory, session) ==
    SliceFirst(<<session>> \o quizHistory, QuizHistoryCap)

recordQuizSessionRec(prev, session, id, t) ==
    [prev EXCEPT !.quizHistory = newQuizHistory(@, newSession(session, id, t))]

-----------------------------------------------------------------------------
(* JavaScript Number arithmetic (IEEE-754 binary64, round to nearest, ties *)
(* to even) for Math.round((recentCorrect / recentTotal) * 100).  A        *)
(* significand is a sequence of bits, most significant first; a positive   *)
(* Number is [m |-> 53 bits starting with 1, e |-> e], of value m * 2^e.   *)

SignificandBits == 53

Zeros(n) == [i \in 1..n |-> 0]

\* the value of a short bit sequence
BitsValue(bits) ==
    CHOOSE v \in 0..(2 ^ Len(bits) - 1) :
        \A i \in 1..Len(bits) : bits[i] = (v \div 2 ^ (Len(bits) - i)) % 2

\* bits + 1, one bit longer when every bit was 1
BitsIncrement(bits) ==
    LET zeros == {i \in 1..Len(bits) : bits[i] = 0}
    IN  IF zeros = {} THEN <<1>> \o Zeros(Len(bits))
        ELSE LET last == Greatest(zeros)
             IN  [i \in 1..Len(bits) |->
                     IF i < last THEN bits[i] ELSE IF i = last THEN 1 ELSE 0]

\* a + b for bit sequences of one length whose first bits are 0: bit i of the
\* sum takes the carry that some lower position generates and every position
\* in between passes on
BitsAdd(a, b) ==
    LET n == Len(a)
        carry(i) == \E j \in (i + 1)..n :
                        /\ a[j] = 1 /\ b[j] = 1
                        /\ \A k \in (i + 1)..(j - 1) : a[k] = 1 \/ b[k] = 1
    IN  [i \in 1..n |-> (a[i] + b[i] + (IF carry(i) THEN 1 ELSE 0)) % 2]

StripLeadingZeros(bits) ==
    LET ones == {i \in 1..Len(bits) : bits[i] = 1}
    IN  IF ones = {} THEN <<>> ELSE SubSeq(bits, Least(ones), Len(bits))

\* bits * 2^shift, written on width bits
ShiftedTo(bits, shift, width) == Zeros(width - Len(bits) - shift) \o bits \o Zeros(shift)

\* bits * 100 = bits * 64 + bits * 32 + bits * 4, exactly
BitsTimes100(bits) ==
    LET width == Len(bits) + 8
        sum == BitsAdd(ShiftedTo(bits, 6, width), ShiftedTo(bits, 5, width))
    IN  StripLeadingZeros(BitsAdd(sum, ShiftedTo(bits, 2, width)))

\* the exact value bits * 2^e (bits starting with 1) with sticky telling of a
\* non-zero rest below it, rounded to 53 bits
RoundToNumber(bits, e, sticky) ==
    IF Len(bits) <= SignificandBits
    THEN [m |-> bits \o Zeros(SignificandBits - Len(bits)),
          e |-> e - (SignificandBits - Len(bits))]
    ELSE LET kept == SubSeq(bits, 1, SignificandBits)
             dropped == Len(bits) - SignificandBits
             guard == bits[SignificandBits + 1]
             rest == sticky \/ \E i \in (SignificandBits + 2)..Len(bits) : bits[i] = 1
             up == guard = 1 /\ (rest \/ kept[SignificandBits] = 1)
             rounded == IF up THEN BitsIncrement(kept) ELSE kept
         IN  IF Len(rounded) > SignificandBits
             THEN [m |-> SubSeq(rounded, 1, SignificandBits), e |-> e + dropped + 1]
             ELSE [m |-> rounded, e |-> e + dropped]

\* how many binary digits after the point until the first 1 of r / t (0 < r < t)
RECURSIVE FirstOneAt(_, _)
FirstOneAt(r, t) == IF 2 * r >= t THEN 1 ELSE 1 + FirstOneAt(2 * r, t)

\* 2^n mod t, by squaring
RECURSIVE PowerOfTwoMod(_, _)
PowerOfTwoMod(n, t) ==
    IF n = 0 THEN 1 % t
    ELSE IF n % 2 = 0
         THEN LET half == PowerOfTwoMod(n \div 2, t) IN (half * half) % t
         ELSE (2 * PowerOfTwoMod(n - 1, t)) % t

\* r * 2^n mod t
ShiftedRemainder(r, t, n) == ((r % t) * PowerOfTwoMod(n, t)) % t

\* the first n binary digits after the point of r / t (0 <= r < t)
BinaryDigits(r, t, n) == [i \in 1..n |-> (2 * ShiftedRemainder(r, t, i - 1)) \div t]

\* the Number c / t for integers 0 < c < t
NumberDivide(c, t) ==
    LET k == FirstOneAt(c, t)
        from == ShiftedRemainder(c, t, k - 1)
        digits == BinaryDigits(from, t, SignificandBits + 1)
        rest == ShiftedRemainder(from, t, SignificandBits + 1)
    IN  RoundToNumber(digits, 0 - (k + SignificandBits), rest /= 0)

\* the Number x * 100
NumberTimes100(x) == RoundToNumber(BitsTimes100(x.m), x.e, FALSE)

\* Math.round(x) for a Number 0 < x < 2^53: the nearest integer, a tie going up
MathRound(x) ==
    LET below == 0 - x.e
    IN  IF below <= 0 THEN BitsValue(x.m \o Zeros(x.e))
        ELSE IF below > SignificandBits THEN 0
        ELSE BitsValue(SubSeq(x.m, 1, SignificandBits - below))
                 + x.m[SignificandBits - below + 1]

\* Math.round((recentCorrect / recentTotal) * 100) for 0 <= correct <= total, total > 0
RoundedPercent(correct, total) ==
    IF correct = 0 THEN 0
    ELSE IF correct = total THEN 100
    ELSE MathRound(NumberTimes100(NumberDivide(correct, total)))

-----------------------------------------------------------------------------
(* Queries *)

getWordsForReview(p, t) ==
    SelectSeq(AllWords,
              LAMBDA w : IF ~HasRecord(p, w) THEN TRUE
                         ELSE isDueForReview(p[w].nextReview, t))

\* mutant: the level test is left out
getStruggleWords_IgnoresLevel(p) ==
    SelectSeq(AllWords,
              LAMBDA w : IF ~HasRecord(p, w) THEN FALSE
                         ELSE p[w].incorrectCount >= 2)

getStruggleWords(p) ==
    SelectSeq(AllWords,
              LAMBDA w : IF ~HasRecord(p, w) THEN FALSE
                         ELSE p[w].srsLevel <= 1 /\ p[w].incorrectCount >= 2)

\* level 0 asks for the words without a record; any other level for the words
\* whose record is at that level (undefined === level is false)
getWordsBySRSLevel(p, level) ==
    SelectSeq(AllWords, LAMBDA w :
        IF level = 0 THEN ~HasRecord(p, w)
        ELSE HasRecord(p, w) /\ p[w].srsLevel = level)

\* allWords.forEach(word => levelCounts[progress[word.pinyin]?.srsLevel ?? 0]++)
RECURSIVE CountLevels(_, _, _)
CountLevels(p, i, counts) ==
    IF i > Len(AllWords) THEN counts
    ELSE LET word == AllWords[i]
             level == IF HasRecord(p, word) THEN p[word].srsLevel ELSE 0
         IN  CountLevels(p, i + 1, [counts EXCEPT ![level] = @ + 1])

levelCounts(p) == CountLevels(p, 1, [level \in 0..MaxLevel |-> 0])

\* mutant: level 3 counted as mastered
masteredCount_FromThree(counts) == counts[3] + counts[4] + counts[5]

masteredCount(counts) == counts[4] + counts[5]

learningCount(counts) == counts[1] + counts[2]

newCount(counts) == counts[0]

\* recentTotal and recentCorrect over the histories of Object.values(progress)
RECURSIVE HistoryTotals(_, _)
HistoryTotals(p, keys) ==
    IF keys = {} THEN [recentTotal |-> 0, recentCorrect |-> 0]
    ELSE LET k == CHOOSE key \in keys : TRUE
             rest == HistoryTotals(p, keys \ {k})
             history == p[k].history
         IN  [recentTotal |-> rest.recentTotal + Len(history),
              recentCorrect |-> rest.recentCorrect
                  + Cardinality({i \in 1..Len(history) : history[i].correct})]

accuracy(p) ==
    LET totals == HistoryTotals(p, DOMAIN p)
    IN  IF totals.recentTotal > 0
        THEN RoundedPercent(totals.recentCorrect, totals.recentTotal)
        ELSE 0

getStatistics(p, s, t) ==
    [totalWords     |-> Len(AllWords),
     levelCounts    |-> levelCounts(p),
     masteredCount  |-> masteredCount(levelCounts(p)),
     learningCount  |-> learningCount(levelCounts(p)),
     newCount       |-> newCount(levelCounts(p)),
     accuracy       |-> accuracy(p),
     dueToday       |-> Len(getWordsForReview(p, t)),
     totalReviews   |-> s.totalReviews,
     currentStreak  |-> s.currentStreak,
     longestStreak  |-> s.longestStreak,
     lastStudyDate  |-> s.lastStudyDate,
     quizHistory    |-> s.quizHistory,
     studyDays      |-> s.studyDays]

-----------------------------------------------------------------------------
(* The ratios of the Statistics view *)

\* a JavaScript Number that a division can leave: finite, NaN (0 / 0) or
\* Infinity (c / 0 for c > 0)
Finite(v) == [number |-> "finite", value |-> v]

NaN == [number |-> "NaN"]

PositiveInfinity == [number |-> "Infinity"]

\* the number of sessions the view lists
RecentSessionsShown == 5

\* totalWords > 0 ? Math.round((masteredCount / totalWords) * 100) : 0
masteryPercentage(mastered, totalWords) ==
    IF totalWords > 0 THEN RoundedPercent(mastered, totalWords) ELSE 0

\* totalWords > 0 ? (count / totalWords) * 100 : 0, for 0 <= count <= totalWords
levelPercentage(count, totalWords) ==
    IF totalWords > 0
    THEN IF count = 0 THEN Finite(0)
         ELSE IF count = totalWords THEN Finite(100)
         ELSE Finite(NumberTimes100(NumberDivide(count, totalWords)))
    ELSE Finite(0)

\* quizHistory.slice(0, 5)
recentSessions(quizHistory) == SliceFirst(quizHistory, RecentSessionsShown)

\* Math.round((session.correctAnswers / session.totalQuestions) * 100), for
\* 0 <= correctAnswers, and correctAnswers <= totalQuestions unless that is 0
sessionPercentage(session) ==
    IF session.data.totalQuestions = 0
    THEN IF session.data.correctAnswers = 0 THEN NaN ELSE PositiveInfinity
    ELSE Finite(RoundedPercent(session.data.correctAnswers, session.data.totalQuestions))

-----------------------------------------------------------------------------
(* Persistence: JSON.stringify and the two save effects *)

\* JSON.stringify leaves out a property whose value is undefined
StringifyReview(r) ==
    IF r.responseTime = NoResponseTime
    THEN [date |-> r.date, correct |-> r.correct, mode |-> r.mode]
    ELSE r

StringifyProgress(p) ==
    [k \in DOMAIN p |->
        [p[k] EXCEPT !.history = [i \in 1..Len(@) |-> StringifyReview(@[i])]]]

StringifyStats(s) == s

\* mutant: the progress save without its guard
saveProgressEffect_Unguarded(p, st) ==
    [st EXCEPT !.progress = <<StringifyProgress(p)>>]

saveProgressEffect(p, st) ==
    IF Cardinality(DOMAIN p) > 0
    THEN [st EXCEPT !.progress = <<StringifyProgress(p)>>]
    ELSE st

\* mutant: the stats save without its guard
saveStatsEffect_Unguarded(s, st) ==
    [st EXCEPT !.stats = <<StringifyStats(s)>>]

saveStatsEffect(s, st) ==
    IF s.totalReviews > 0 \/ Len(s.quizHistory) > 0
    THEN [st EXCEPT !.stats = <<StringifyStats(s)>>]
    ELSE st

emptyStore == [progress |-> <<>>, stats |-> <<>>]

-----------------------------------------------------------------------------
(* The Quiz component (src/unnamed/part_002, lines 442-924): its state, its *)
(* handlers, and the calls it makes to the props: onResult and onComplete   *)
(* hold the calls made since the quiz was last started, in the order made,  *)
(* onExit counts its calls                                                  *)

\* the words prop: the least the quiz starts with
QuizWordList == <<"q1", "q2", "q3", "q4">>

QuizModes == {"character-to-meaning", "pinyin-to-character"}

QuizDifficulties == {"easy", "medium", "hard"}

\* the fewest words a quiz needs
MinQuizWords == 4

\* useState<number>(10)
DefaultQuestionCount == 10

\* null, for selectedAnswer and wrongFirstAttempt
NoAnswer == ""

\* useState({ correct: 0, incorrect: 0, firstAttempt: 0, secondAttempt: 0 })
zeroScore == [correct |-> 0, incorrect |-> 0, firstAttempt |-> 0, secondAttempt |-> 0]

\* the component as mounted, nothing called yet
initialQuiz ==
    [phase              |-> "settings",
     selectedCategory   |-> "all",
     selectedMode       |-> "character-to-meaning",
     selectedDifficulty |-> "easy",
     questionCount      |-> DefaultQuestionCount,
     currentIndex       |-> 0,
     score              |-> zeroScore,
     selectedAnswer     |-> NoAnswer,
     options            |-> {},
     quizWords          |-> <<>>,
     startTime          |-> 0,
     reviewedWords      |-> <<>>,
     attemptCount       |-> 0,
     wrongFirstAttempt  |-> NoAnswer,
     questionResolved   |-> FALSE,
     onResult           |-> <<>>,
     onComplete         |-> <<>>,
     onExit             |-> 0,
     runs               |-> 0]

\* mutant: hard allows a second attempt too
maxAttempts_AlwaysTwo(q) == 2

\* const maxAttempts = selectedDifficulty === 'hard' ? 1 : 2
maxAttempts(q) == IF q.selectedDifficulty = "hard" THEN 1 ELSE 2

\* what shuffleArray can return: every order of the array
Shuffles(array) ==
    {[i \in 1..Len(array) |-> array[f[i]]] : f \in Permutations(1..Len(array))}

\* the effect that sets up the current question: the options are the current
\* word and up to three others, the attempt state starts over
setUpQuestion(q, wrongOptions) ==
    [q EXCEPT !.options = {q.quizWords[q.currentIndex + 1]} \cup wrongOptions,
              !.selectedAnswer = NoAnswer,
              !.attemptCount = 0,
              !.wrongFirstAttempt = NoAnswer,
              !.questionResolved = FALSE]

\* the draws of shuffleArray(wrongPool).slice(0, 3) for the current question
WrongOptionDraws(q) ==
    LET wrongPool == Range(QuizWordList) \ {q.quizWords[q.currentIndex + 1]}
    IN  {draw \in SUBSET wrongPool : Cardinality(draw) = Min(3, Cardinality(wrongPool))}

\* startQuiz, for one outcome of the shuffle
startQuiz(q, shuffled, t) ==
    [q EXCEPT !.score = zeroScore,
              !.currentIndex = 0,
              !.quizWords = SliceFirst(shuffled, Min(q.questionCount, Len(shuffled))),
              !.startTime = t,
              !.reviewedWords = <<>>,
              !.phase = "playing",
              !.onResult = <<>>,
              !.onComplete = <<>>,
              !.runs = @ + 1]

\* handleAnswer(answer)
handleAnswer(q, answer) ==
    LET currentWord == q.quizWords[q.currentIndex + 1]
        newAttemptCount == q.attemptCount + 1
    IN  IF q.questionResolved THEN q
        ELSE IF answer = currentWord
        THEN [q EXCEPT
                !.attemptCount = newAttemptCount,
                !.selectedAnswer = answer,
                !.questionResolved = TRUE,
                !.onResult = Append(@, [index |-> q.currentIndex,
                                        pinyin |-> currentWord, correct |-> TRUE,
                                        mode |-> q.selectedMode]),
                !.reviewedWords = Append(@, currentWord),
                !.score = IF newAttemptCount = 1
                          THEN [@ EXCEPT !.correct = @ + 1, !.firstAttempt = @ + 1]
                          ELSE [@ EXCEPT !.correct = @ + 1, !.secondAttempt = @ + 1]]
        ELSE IF newAttemptCount = 1 /\ maxAttempts(q) > 1
        THEN [q EXCEPT
                !.attemptCount = newAttemptCount,
                !.wrongFirstAttempt = answer,
                !.selectedAnswer = NoAnswer]
        ELSE [q EXCEPT
                !.attemptCount = newAttemptCount,
                !.selectedAnswer = answer,
                !.questionResolved = TRUE,
                !.onResult = Append(@, [index |-> q.currentIndex,
                                        pinyin |-> currentWord, correct |-> FALSE,
                                        mode |-> q.selectedMode]),
                !.reviewedWords = Append(@, currentWord),
                !.score = [@ EXCEPT !.incorrect = @ + 1]]

\* mutant: totalQuestions is the number asked for, not the number of quizWords
completedSession_CountAskedFor(q, t) ==
    [mode                 |-> q.selectedMode,
     difficulty           |-> q.selectedDifficulty,
     category             |-> q.selectedCategory,
     totalQuestions       |-> q.questionCount,
     correctAnswers       |-> q.score.correct,
     incorrectAnswers     |-> q.score.incorrect,
     firstAttemptCorrect  |-> q.score.firstAttempt,
     secondAttemptCorrect |-> q.score.secondAttempt,
     duration             |-> t - q.startTime,
     wordsReviewed        |-> q.reviewedWords]

\* the session handleNext hands to onComplete
completedSession(q, t) ==
    [mode                 |-> q.selectedMode,
     difficulty           |-> q.selectedDifficulty,
     category             |-> q.selectedCategory,
     totalQuestions       |-> Len(q.quizWords),
     correctAnswers       |-> q.score.correct,
     incorrectAnswers     |-> q.score.incorrect,
     firstAttemptCorrect  |-> q.score.firstAttempt,
     secondAttemptCorrect |-> q.score.secondAttempt,
     duration             |-> t - q.startTime,
     wordsReviewed        |-> q.reviewedWords]

\* handleNext, up to the question effect that follows a new currentIndex
handleNext(q, t) ==
    IF q.currentIndex + 1 >= Len(q.quizWords)
    THEN [q EXCEPT !.onComplete = Append(@, completedSession(q, t)),
                   !.phase = "results"]
    ELSE [q EXCEPT !.currentIndex = @ + 1]

\* a click on a difficulty button of the settings view
SelectDifficulty(difficulty) ==
    /\ quiz.phase = "settings"
    /\ quiz' = [quiz EXCEPT !.selectedDifficulty = difficulty]
    /\ UNCHANGED <<progress, stats, store, now, phase, idCounter, log, sessionLog, queue, unsaved>>

\* a click on a mode button of the settings view
SelectMode(mode) ==
    /\ quiz.phase = "settings"
    /\ quiz' = [quiz EXCEPT !.selectedMode = mode]
    /\ UNCHANGED <<progress, stats, store, now, phase, idCounter, log, sessionLog, queue, unsaved>>

\* a click on Start Quiz, with the render and the question effect that follow
StartQuiz ==
    /\ quiz.phase = "settings"
    /\ Len(QuizWordList) >= MinQuizWords
    /\ \E shuffled \in Shuffles(QuizWordList) :
        \E wrongOptions \in WrongOptionDraws(startQuiz(quiz, shuffled, now)) :
            quiz' = setUpQuestion(startQuiz(quiz, shuffled, now), wrongOptions)
    /\ UNCHANGED <<progress, stats, store, now, phase, idCounter, log, sessionLog, queue, unsaved>>

\* a click on an option of the playing view
PickOption(answer) ==
    /\ quiz.phase = "playing"
    /\ answer \in quiz.options
    /\ quiz' = handleAnswer(quiz, answer)
    /\ UNCHANGED <<progress, stats, store, now, phase, idCounter, log, sessionLog, queue, unsaved>>

\* a click on the Next button, shown once the question is resolved, with the
\* render and the question effect that follow
PressNext ==
    /\ quiz.phase = "playing"
    /\ quiz.questionResolved
    /\ \E next \in {handleNext(quiz, now)} :
        IF next.phase = "playing"
        THEN \E wrongOptions \in WrongOptionDraws(next) :
                quiz' = setUpQuestion(next, wrongOptions)
        ELSE quiz' = next
    /\ UNCHANGED <<progress, stats, store, now, phase, idCounter, log, sessionLog, queue, unsaved>>

\* a click on Play Again in the results view
PlayAgain ==
    /\ quiz.phase = "results"
    /\ quiz' = [quiz EXCEPT !.phase = "settings"]
    /\ UNCHANGED <<progress, stats, store, now, phase, idCounter, log, sessionLog, queue, unsaved>>

\* a click on Exit (any view): onExit, and the parent takes the quiz, and with
\* it the component's state, away
ExitQuiz ==
    /\ quiz.phase \in {"settings", "playing", "results"}
    /\ quiz' = [initialQuiz EXCEPT !.onExit = quiz.onExit + 1, !.phase = "unmounted",
                                   !.runs = quiz.runs]
    /\ UNCHANGED <<progress, stats, store, now, phase, idCounter, log, sessionLog, queue, unsaved>>

-----------------------------------------------------------------------------
(* Sessions handed to recordQuizSession by the quiz flow *)

SessionInputs ==
    {[mode |-> "character-to-meaning", difficulty |-> "easy", category |-> "all",
      totalQuestions |-> 2, correctAnswers |-> 1, incorrectAnswers |-> 1,
      firstAttemptCorrect |-> 1, secondAttemptCorrect |-> 0,
      duration |-> 9, wordsReviewed |-> <<"w1", "w2">>],
     [mode |-> "pinyin-to-character", difficulty |-> "hard", category |-> "all",
      totalQuestions |-> 0, correctAnswers |-> 0, incorrectAnswers |-> 0,
      firstAttemptCorrect |-> 0, secondAttemptCorrect |-> 0,
      duration |-> 0, wordsReviewed |-> <<>>]}

-----------------------------------------------------------------------------
(* Initial state: first run, nothing stored, the component mounted *)

Init ==
    /\ progress = emptyProgress
    /\ stats = defaultStats
    /\ store = emptyStore
    /\ now = 0
    /\ phase = "ready"
    /\ idCounter = 0
    /\ log = [k \in Keys |-> <<>>]
    /\ sessionLog = <<>>
    /\ queue = <<>>
    /\ unsaved = {}
    /\ quiz = initialQuiz

(* Actions *)

\* updateProgress(pinyin, correct, mode, responseTime), with updateDailyStats and
\* the save effects of the render that follows
RecordReview(pinyin, correct, mode, rt) ==
    /\ phase = "ready"
    /\ IF UpdaterThrows(progress, pinyin)
       THEN /\ phase' = "crashed"
            /\ UNCHANGED <<progress, stats, store, now, idCounter, log, sessionLog, queue, unsaved, quiz>>
       ELSE /\ progress' = updateProgressMap(progress, pinyin, correct, mode, rt, now)
            /\ stats' = updateDailyStatsRec(stats, getTodayDate(now))
            /\ store' = saveStatsEffect(stats', saveProgressEffect(progress', store))
            /\ log' = [log EXCEPT ![pinyin] = <<ReviewRecord(now, correct, mode, rt)>> \o @]
            /\ UNCHANGED <<now, phase, idCounter, sessionLog, queue, unsaved, quiz>>

\* recordQuizSession(session), with the stats save effect
RecordSession(session) ==
    /\ phase = "ready"
    /\ stats' = recordQuizSessionRec(stats, session, idCounter + 1, now)
    /\ idCounter' = idCounter + 1
    /\ store' = saveStatsEffect(stats', store)
    /\ sessionLog' = <<newSession(session, idCounter + 1, now)>> \o sessionLog
    /\ UNCHANGED <<progress, now, phase, log, queue, unsaved, quiz>>

\* mutant: the reset keeps the longest streak
ResetAll_KeepsLongestStreak ==
    /\ phase = "ready"
    /\ progress' = emptyProgress
    /\ stats' = [defaultStats EXCEPT !.longestStreak = stats.longestStreak]
    /\ store' = saveStatsEffect(stats', saveProgressEffect(progress', emptyStore))
    /\ log' = [k \in Keys |-> <<>>]
    /\ sessionLog' = <<>>
    /\ UNCHANGED <<now, phase, idCounter, queue, unsaved, quiz>>

\* resetProgress(); the save effects that follow write nothing
ResetAll ==
    /\ phase = "ready"
    /\ progress' = emptyProgress
    /\ stats' = defaultStats
    /\ store' = saveStatsEffect(stats', saveProgressEffect(progress', emptyStore))
    /\ log' = [k \in Keys |-> <<>>]
    /\ sessionLog' = <<>>
    /\ UNCHANGED <<now, phase, idCounter, queue, unsaved, quiz>>

\* the wall clock advances to the next midnight
NextDay(limit) ==
    /\ getTodayDate(now) < limit
    /\ now' = (getTodayDate(now) + 1) * TicksPerDay
    /\ UNCHANGED <<progress, stats, store, phase, idCounter, log, sessionLog, queue, unsaved, quiz>>

\* the wall clock advances
Tick(limit) ==
    /\ now < limit
    /\ now' = now + 1
    /\ UNCHANGED <<progress, stats, store, phase, idCounter, log, sessionLog, queue, unsaved, quiz>>

-----------------------------------------------------------------------------
(* Spec: every operation on every key, a few reviews deep *)

\* one key of each kind is enough here: "y" behaves as "x" does
SpecKeys == Keys \ {"y"}

Review ==
    \E pinyin \in SpecKeys, correct \in BOOLEAN, mode \in Modes, rt \in ResponseTimes :
        /\ stats.totalReviews < MaxReviews
        /\ RecordReview(pinyin, correct, mode, rt)

Session ==
    \E session \in SessionInputs :
        /\ idCounter < MaxSessions
        /\ RecordSession(session)

Reset == ResetAll

Clock == Tick(MaxTime)

Next == Review \/ Session \/ Reset \/ Clock

Spec == Init /\ [][Next]_vars

-----------------------------------------------------------------------------
(* SpecWord: one catalog word reviewed up to every level (the other never), *)
(* with sessions and resets in between                                      *)

WordReview ==
    \E correct \in BOOLEAN :
        /\ stats.totalReviews < MaxWordReviews
        /\ RecordReview("w1", correct, "flashcard", NoResponseTime)

WordSession ==
    \E session \in SessionInputs :
        /\ idCounter < MaxWordSessions
        /\ RecordSession(session)

WordClock == Tick(MaxWordTime)

NextWord == WordReview \/ WordSession \/ Reset \/ WordClock

SpecWord == Init /\ [][NextWord]_vars

-----------------------------------------------------------------------------
(* SpecHistory: one catalog word reviewed more often than its history holds *)

HistReview ==
    \E correct \in BOOLEAN :
        /\ stats.totalReviews < MaxHistReviews
        /\ RecordReview("w1", correct, "flashcard", NoResponseTime)

HistClock == Tick(MaxHistTime)

NextHistory == HistReview \/ Reset \/ HistClock

SpecHistory == Init /\ [][NextHistory]_vars

-----------------------------------------------------------------------------
(* SpecSchedule: a few early reviews of one word, then the clock runs past *)
(* the longest review interval                                             *)

ScheduleHorizon ==
    MaxSchedReviewTime + SrsInterval(MaxLevel) * TicksPerDay + MaxSchedSlack

SchedReview ==
    \E correct \in BOOLEAN :
        /\ stats.totalReviews < MaxSchedReviews
        /\ now <= MaxSchedReviewTime
        /\ RecordReview("w1", correct, "flashcard", NoResponseTime)

SchedClock == Tick(ScheduleHorizon)

NextSchedule == SchedReview \/ Reset \/ SchedClock

SpecSchedule == Init /\ [][NextSchedule]_vars

-----------------------------------------------------------------------------
(* SpecAccuracy: four keys reviewed one after the other until each history  *)
(* is full, the correct answers first: every count of correct entries among *)
(* every count of held entries                                              *)

AccuracyKeys == <<"w1", "w2", "x", "y">>

AccuracyReview ==
    \E correct \in BOOLEAN :
        /\ stats.totalReviews < MaxAccuracyReviews
        /\ correct => \A k \in DOMAIN progress : progress[k].incorrectCount = 0
        /\ RecordReview(AccuracyKeys[Min(stats.totalReviews \div HistoryCap + 1,
                                         Len(AccuracyKeys))],
                        correct, "flashcard", NoResponseTime)

NextAccuracy == AccuracyReview \/ Reset

SpecAccuracy == Init /\ [][NextAccuracy]_vars

-----------------------------------------------------------------------------
(* SpecSessions: one quiz completed over and over, past the cap of quizHistory *)

ManySessions ==
    /\ idCounter < MaxManySessions
    /\ RecordSession(CHOOSE session \in SessionInputs : session.totalQuestions > 0)

NextSessions == ManySessions \/ Reset

SpecSessions == Init /\ [][NextSessions]_vars

-----------------------------------------------------------------------------
(* SpecStreak: a few reviews spread over a few days, with days left out *)

StreakReview ==
    /\ stats.totalReviews < MaxStreakReviews
    /\ RecordReview("w1", TRUE, "flashcard", NoResponseTime)

StreakClock == Tick((MaxStreakDays + 1) * TicksPerDay - 1)

NextStreak == StreakReview \/ Reset \/ StreakClock

SpecStreak == Init /\ [][NextStreak]_vars

-----------------------------------------------------------------------------
(* SpecYear: a review on every day for more than a year, and one day with a *)
(* second review                                                            *)

\* the days on which the second review happens
RepeatDays == {0, MaxYearDays}

ReviewsToday ==
    Cardinality({i \in 1..Len(log["w1"]) :
                    getTodayDate(log["w1"][i].date) = getTodayDate(now)})

YearReview ==
    /\ \/ ReviewsToday = 0
       \/ ReviewsToday = 1 /\ getTodayDate(now) \in RepeatDays
    /\ RecordReview("w1", TRUE, "flashcard", NoResponseTime)

YearClock ==
    /\ ReviewsToday > 0
    /\ NextDay(MaxYearDays)

NextYear == YearReview \/ YearClock

SpecYear == Init /\ [][NextYear]_vars

-----------------------------------------------------------------------------
(* React: the load effect, queued state updates, the render that applies *)
(* them and the save effects that follow the render                       *)

\* JavaScript's null
JsNull == [null |-> TRUE]

\* localStorage texts that are not the JSON of an object: one that JSON.parse
\* rejects, and the JSON of null
UnparseableText == [text |-> "{oops"]
NullText == [text |-> "null"]

\* JSON.parse(text) throws a SyntaxError
ParseThrows(text) == text = UnparseableText

\* a property JSON.stringify left out reads as undefined
ParseReview(r) ==
    IF "responseTime" \in DOMAIN r
    THEN r
    ELSE [date |-> r.date, correct |-> r.correct, mode |-> r.mode,
          responseTime |-> NoResponseTime]

\* JSON.parse(savedProgress)
ParseProgress(text) ==
    IF text = NullText
    THEN JsNull
    ELSE [k \in DOMAIN text |->
            [text[k] EXCEPT !.history = [i \in 1..Len(@) |-> ParseReview(@[i])]]]

\* JSON.parse(savedStats)
ParseStats(text) == IF text = NullText THEN JsNull ELSE text

\* the calls that queue a state update
SetProgress(value) == [op |-> "setProgress", value |-> value]

SetStats(value) == [op |-> "setStats", value |-> value]

UpdateProgressCall(pinyin, correct, mode, rt) ==
    [op |-> "updateProgress", pinyin |-> pinyin, correct |-> correct,
     mode |-> mode, responseTime |-> rt]

UpdateDailyStatsCall(today) == [op |-> "updateDailyStats", today |-> today]

RecordQuizSessionCall(session, id, t) ==
    [op |-> "recordQuizSession", session |-> session, id |-> id, t |-> t]

\* the load effect throws: a stored text does not parse
LoadThrows(st) ==
    \/ Len(st.progress) > 0 /\ ParseThrows(st.progress[1])
    \/ Len(st.stats) > 0 /\ ParseThrows(st.stats[1])

\* mutant: the load effect reads the progress blob only
LoadUpdates_ProgressOnly(st) ==
    IF Len(st.progress) > 0 THEN <<SetProgress(ParseProgress(st.progress[1]))>> ELSE <<>>

\* the updates the load effect queues
LoadUpdates(st) ==
    (IF Len(st.progress) > 0 THEN <<SetProgress(ParseProgress(st.progress[1]))>> ELSE <<>>)
    \o (IF Len(st.stats) > 0 THEN <<SetStats(ParseStats(st.stats[1]))>> ELSE <<>>)

\* one queued update applied to the hook state s at render time t
ApplyUpdate(s, u, t) ==
    CASE u.op = "setProgress" ->
            [s EXCEPT !.progress = u.value, !.changed = @ \cup {"progress"}]
      [] u.op = "setStats" ->
            [s EXCEPT !.stats = u.value, !.changed = @ \cup {"stats"}]
      [] u.op = "updateProgress" ->
            IF UpdaterThrows(s.progress, u.pinyin)
            THEN [s EXCEPT !.threw = TRUE]
            ELSE [s EXCEPT !.progress = updateProgressMap(@, u.pinyin, u.correct,
                                                          u.mode, u.responseTime, t),
                           !.changed = @ \cup {"progress"}]
      [] u.op = "updateDailyStats" ->
            [s EXCEPT !.stats = updateDailyStatsRec(@, u.today),
                      !.changed = @ \cup {"stats"}]
      [] u.op = "recordQuizSession" ->
            [s EXCEPT !.stats = recordQuizSessionRec(@, u.session, u.id, u.t),
                      !.changed = @ \cup {"stats"}]

\* the queue applied in order, each update to the state the one before left
RECURSIVE ApplyQueue(_, _, _)
ApplyQueue(s, q, t) ==
    IF q = <<>> \/ s.threw
    THEN s
    ELSE ApplyQueue(ApplyUpdate(s, Head(q), t), Tail(q), t)

\* mutant: a render applies the first queued update and drops the rest
Rendered_FirstUpdateOnly(p, s, q, t) ==
    ApplyQueue([progress |-> p, stats |-> s, changed |-> {}, threw |-> FALSE],
               IF q = <<>> THEN q ELSE <<Head(q)>>, t)

\* the hook state a render of the queue arrives at
Rendered(p, s, q, t) ==
    ApplyQueue([progress |-> p, stats |-> s, changed |-> {}, threw |-> FALSE], q, t)

\* Object.keys(progress) or stats.totalReviews throws a TypeError
SaveThrows(p, s) == p = JsNull \/ s = JsNull

\* the save effects whose dependency changed, the progress one first
saveEffects(p, s, changed, st) ==
    LET afterProgress == IF "progress" \in changed THEN saveProgressEffect(p, st) ELSE st
    IN  IF "stats" \in changed THEN saveStatsEffect(s, afterProgress) ELSE afterProgress

\* mutant: the save effects of the first render write the initial state
Mount_WritesInitialState ==
    /\ phase = "unmounted"
    /\ IF LoadThrows(store)
       THEN /\ phase' = "crashed"
            /\ UNCHANGED <<progress, stats, store, now, idCounter, log, sessionLog, queue, unsaved, quiz>>
       ELSE /\ queue' = LoadUpdates(store)
            /\ store' = [progress |-> <<StringifyProgress(progress)>>,
                         stats |-> <<StringifyStats(stats)>>]
            /\ phase' = "ready"
            /\ UNCHANGED <<progress, stats, now, idCounter, log, sessionLog, unsaved, quiz>>

\* the first render, on the initial state, and its effects: the load effect
\* queues what is stored, the save effects see the initial state
Mount ==
    /\ phase = "unmounted"
    /\ IF LoadThrows(store)
       THEN /\ phase' = "crashed"
            /\ UNCHANGED <<progress, stats, store, now, idCounter, log, sessionLog, queue, unsaved, quiz>>
       ELSE /\ queue' = LoadUpdates(store)
            /\ store' = saveStatsEffect(stats, saveProgressEffect(progress, store))
            /\ phase' = "ready"
            /\ UNCHANGED <<progress, stats, now, idCounter, log, sessionLog, unsaved, quiz>>

\* the render that applies the queued updates; an updater that throws, or a
\* state the render and its effects cannot read, takes the app down
Render ==
    /\ phase = "ready"
    /\ queue /= <<>>
    /\ unsaved = {}
    /\ LET r == Rendered(progress, stats, queue, now)
       IN  IF r.threw \/ SaveThrows(r.progress, r.stats)
           THEN /\ phase' = "crashed"
                /\ UNCHANGED <<progress, stats, store, now, idCounter, log, sessionLog, queue, unsaved, quiz>>
           ELSE /\ progress' = r.progress
                /\ stats' = r.stats
                /\ queue' = <<>>
                /\ unsaved' = r.changed
                /\ UNCHANGED <<store, now, phase, idCounter, log, sessionLog, quiz>>

\* the save effects of the last render
Effects ==
    /\ phase = "ready"
    /\ unsaved /= {}
    /\ store' = saveEffects(progress, stats, unsaved, store)
    /\ unsaved' = {}
    /\ UNCHANGED <<progress, stats, now, phase, idCounter, log, sessionLog, queue, quiz>>

\* the handler's part of updateProgress(pinyin, correct, mode, responseTime):
\* it queues the progress updater and, through updateDailyStats, the stats one
IssueReview(pinyin, correct, mode, rt) ==
    /\ phase = "ready"
    /\ unsaved = {}
    /\ queue' = queue \o <<UpdateProgressCall(pinyin, correct, mode, rt),
                           UpdateDailyStatsCall(getTodayDate(now))>>
    /\ log' = [log EXCEPT ![pinyin] = <<ReviewRecord(now, correct, mode, rt)>> \o @]
    /\ UNCHANGED <<progress, stats, store, now, phase, idCounter, sessionLog, unsaved, quiz>>

\* the handler's part of recordQuizSession(session)
IssueSession(session) ==
    /\ phase = "ready"
    /\ unsaved = {}
    /\ queue' = Append(queue, RecordQuizSessionCall(session, idCounter + 1, now))
    /\ idCounter' = idCounter + 1
    /\ sessionLog' = <<newSession(session, idCounter + 1, now)>> \o sessionLog
    /\ UNCHANGED <<progress, stats, store, now, phase, log, unsaved, quiz>>

\* the handler's part of resetProgress()
IssueReset ==
    /\ phase = "ready"
    /\ unsaved = {}
    /\ queue' = queue \o <<SetProgress(emptyProgress), SetStats(defaultStats)>>
    /\ store' = emptyStore
    /\ log' = [k \in Keys |-> <<>>]
    /\ sessionLog' = <<>>
    /\ UNCHANGED <<progress, stats, now, phase, idCounter, unsaved, quiz>>

-----------------------------------------------------------------------------
(* SpecStartup: the app starts on whatever an earlier run, or anything else, *)
(* left in localStorage, and is then used                                    *)

\* what an earlier run can have stored
StoredProgress ==
    {emptyProgress,
     updateProgressMap(emptyProgress, "w1", TRUE, "flashcard", NoResponseTime, 0),
     updateProgressMap(updateProgressMap(emptyProgress, "w1", TRUE, "character-to-meaning",
                                         NoResponseTime, 0),
                       "x", FALSE, "flashcard", NoResponseTime, 0)}

StoredStats ==
    {defaultStats,
     updateDailyStatsRec(defaultStats, 0),
     recordQuizSessionRec(updateDailyStatsRec(defaultStats, 0),
                          CHOOSE session \in SessionInputs : session.totalQuestions > 0,
                          0, 0)}

ProgressBlobs ==
    {<<>>, <<UnparseableText>>, <<NullText>>}
        \cup {<<StringifyProgress(p)>> : p \in StoredProgress}

StatsBlobs ==
    {<<>>, <<UnparseableText>>, <<NullText>>}
        \cup {<<StringifyStats(s)>> : s \in StoredStats}

InitStartup ==
    /\ progress = emptyProgress
    /\ stats = defaultStats
    /\ store \in [progress : ProgressBlobs, stats : StatsBlobs]
    /\ now \in {0, TicksPerDay}
    /\ phase = "unmounted"
    /\ idCounter = 0
    /\ log = [k \in Keys |-> <<>>]
    /\ sessionLog = <<>>
    /\ queue = <<>>
    /\ unsaved = {}
    /\ quiz = initialQuiz

\* the startup is over: nothing queued, no save due
Settled == phase = "ready" /\ queue = <<>> /\ unsaved = {}

StartupReview ==
    \E pinyin \in {"w1", "w2"}, correct \in BOOLEAN :
        /\ Settled
        /\ Len(log["w1"]) + Len(log["w2"]) < MaxStartupReviews
        /\ RecordReview(pinyin, correct, "flashcard", NoResponseTime)

StartupSession ==
    \E session \in SessionInputs :
        /\ Settled
        /\ idCounter < MaxStartupSessions
        /\ RecordSession(session)

StartupReset == Settled /\ ResetAll

NextStartup ==
    Mount \/ Render \/ Effects \/ StartupReview \/ StartupSession \/ StartupReset

SpecStartup == InitStartup /\ [][NextStartup]_vars

-----------------------------------------------------------------------------
(* SpecBatch: handlers run back to back, their updates queued, before React *)
(* renders and the save effects run                                         *)

BatchKeys == {"w1", "w2", "constructor"}

BatchReview ==
    \E pinyin \in BatchKeys, correct \in BOOLEAN :
        /\ Len(queue) < MaxBatchQueue
        /\ stats.totalReviews + Cardinality({i \in 1..Len(queue) : queue[i].op = "updateProgress"})
                < MaxBatchReviews
        /\ IssueReview(pinyin, correct, "flashcard", NoResponseTime)

BatchSession ==
    \E session \in SessionInputs :
        /\ Len(queue) < MaxBatchQueue
        /\ idCounter < MaxBatchSessions
        /\ IssueSession(session)

BatchReset ==
    /\ Len(queue) < MaxBatchQueue
    /\ IssueReset

NextBatch == BatchReview \/ BatchSession \/ BatchReset \/ Render \/ Effects

SpecBatch == Init /\ [][NextBatch]_vars

\* React runs a render it has scheduled and the effects of a render it has
\* committed
FairSpecBatch == SpecBatch /\ WF_vars(Render) /\ WF_vars(Effects)

-----------------------------------------------------------------------------
(* SpecQuiz: quizzes set up, answered, completed or left, one after another *)

QuizSettings ==
    \/ \E difficulty \in QuizDifficulties : SelectDifficulty(difficulty)
    \/ \E mode \in QuizModes : SelectMode(mode)

QuizStart ==
    /\ quiz.runs < MaxQuizRuns
    /\ StartQuiz

QuizAnswer == \E answer \in Range(QuizWordList) : PickOption(answer)

NextQuiz == QuizSettings \/ QuizStart \/ QuizAnswer \/ PressNext \/ PlayAgain \/ ExitQuiz

SpecQuiz == Init /\ [][NextQuiz]_vars

-----------------------------------------------------------------------------
(* Properties *)

\* a step that reviews key k: its log grows by one record
IsReviewOf(k) == Len(log'[k]) = Len(log[k]) + 1

\* a step of resetProgress
IsResetStep == progress' = emptyProgress /\ stats' = defaultStats

\* the number of correct reviews at the newest end of a log
RECURSIVE CorrectRun(_)
CorrectRun(l) ==
    IF l = <<>> THEN 0
    ELSE IF Head(l).correct THEN 1 + CorrectRun(Tail(l)) ELSE 0

\* C1: in every reachable state every Progress record has srsLevel in 0..5.
C1_LevelInRange ==
    \A k \in DOMAIN progress : progress[k].srsLevel \in 0..5

\* a correct review was applied at level 5, with a session recorded
C1_Witness ==
    /\ HasRecord(progress, "w1")
    /\ progress["w1"].srsLevel = 5
    /\ CorrectRun(log["w1"]) >= 6
    /\ Len(stats.quizHistory) > 0

\* C2: once a record exists its srsLevel never returns to 0: a review of an
\* existing record leaves srsLevel >= 1, and only resetProgress removes a record.
C2_NeverBackToZero ==
    [][\A k \in Keys :
        HasRecord(progress, k) =>
            \/ IsResetStep
            \/ /\ HasRecord(progress', k)
               /\ IsReviewOf(k) => progress'[k].srsLevel >= 1
               /\ ~IsReviewOf(k) => progress'[k] = progress[k]]_vars

\* an incorrect review of a record at level 0 or 1 has left it at level 1
C2_Witness ==
    /\ HasRecord(progress, "w1")
    /\ Len(log["w1"]) >= 2
    /\ ~log["w1"][1].correct
    /\ ~log["w1"][2].correct
    /\ progress["w1"].srsLevel = 1

\* C3: a correct review of an existing record at level L with streak s and
\* counters (c, i) yields level min(5, L+1), streak s+1, counters (c+1, i).
C3_CorrectReview ==
    [][\A k \in Keys :
        (HasRecord(progress, k) /\ IsReviewOf(k) /\ log'[k][1].correct) =>
            /\ progress'[k].srsLevel =
                   (IF progress[k].srsLevel >= 5 THEN 5 ELSE progress[k].srsLevel + 1)
            /\ progress'[k].streak = progress[k].streak + 1
            /\ progress'[k].correctCount = progress[k].correctCount + 1
            /\ progress'[k].incorrectCount = progress[k].incorrectCount]_vars

\* a correct review was applied to a record already at level 5
C3_Witness ==
    /\ HasRecord(progress, "w1")
    /\ CorrectRun(log["w1"]) = 6
    /\ Len(log["w1"]) > 6
    /\ progress["w1"].srsLevel = 5
    /\ progress["w1"].streak = 6

\* C4: an incorrect review of an existing record at level L with counters
\* (c, i) yields level max(1, L-2), streak 0, counters (c, i+1); from level 5
\* it yields level 3.
C4_IncorrectReview ==
    [][\A k \in Keys :
        (HasRecord(progress, k) /\ IsReviewOf(k) /\ ~log'[k][1].correct) =>
            /\ progress'[k].srsLevel =
                   (IF progress[k].srsLevel - 2 <= 1 THEN 1 ELSE progress[k].srsLevel - 2)
            /\ progress[k].srsLevel = 5 => progress'[k].srsLevel = 3
            /\ progress'[k].streak = 0
            /\ progress'[k].incorrectCount = progress[k].incorrectCount + 1
            /\ progress'[k].correctCount = progress[k].correctCount]_vars

\* an incorrect review was applied at level 5 (after five correct ones)
C4_Witness ==
    /\ HasRecord(progress, "w1")
    /\ Len(log["w1"]) >= 6
    /\ ~log["w1"][1].correct
    /\ CorrectRun(Tail(log["w1"])) >= 5
    /\ progress["w1"].srsLevel = 3
    /\ progress["w1"].streak = 0

\* C5: recordReview on any key without a record never fails and creates the
\* record: level 1, streak 1, counters 1/0 if correct; level 0, streak 0,
\* counters 0/1 if incorrect; history the one new ReviewRecord.
C5_AnyNewKeyAccepted ==
    /\ phase = "ready"
    /\ \A k \in Keys :
        Len(log[k]) = 1 =>
            /\ HasRecord(progress, k)
            /\ progress[k].history = log[k]
            /\ IF log[k][1].correct
               THEN /\ progress[k].srsLevel = 1
                    /\ progress[k].streak = 1
                    /\ progress[k].correctCount = 1
                    /\ progress[k].incorrectCount = 0
               ELSE /\ progress[k].srsLevel = 0
                    /\ progress[k].streak = 0
                    /\ progress[k].correctCount = 0
                    /\ progress[k].incorrectCount = 1

\* C6: after 5 or more consecutive correct reviews of a word, from whatever
\* state it was in, its srsLevel is exactly 5, and stays 5 on further ones.
C6_Saturation ==
    \A k \in DOMAIN progress :
        CorrectRun(log[k]) >= 5 => progress[k].srsLevel = 5

\* a run of exactly five correct reviews that began at an existing record
\* which an incorrect review had just dropped from level 5 to level 3
C6_Witness ==
    /\ HasRecord(progress, "w1")
    /\ Len(log["w1"]) = 11
    /\ CorrectRun(log["w1"]) = 5
    /\ CorrectRun(SubSeq(log["w1"], 7, 11)) = 5
    /\ progress["w1"].srsLevel = 5

\* C7: history never holds more than 10 records, and after n reviews of a
\* word since the last reset it is the min(n, 10) most recent ones, newest first.
C7_HistoryCap ==
    \A k \in Keys :
        IF HasRecord(progress, k)
        THEN /\ Len(progress[k].history) <= 10
             /\ Len(progress[k].history) = (IF Len(log[k]) <= 10 THEN Len(log[k]) ELSE 10)
             /\ \A i \in 1..Len(progress[k].history) : progress[k].history[i] = log[k][i]
        ELSE log[k] = <<>>

\* eleven reviews, the oldest dropped, records of both times and outcomes held
C7_Witness ==
    /\ HasRecord(progress, "w1")
    /\ Len(log["w1"]) = 11
    /\ Len(progress["w1"].history) = 10
    /\ progress["w1"].history[1].date > progress["w1"].history[10].date
    /\ progress["w1"].history[1].correct /= progress["w1"].history[2].correct

\* the interval table of the specification, in days
C8_IntervalDays(level) ==
    CASE level = 0 -> 0
      [] level = 1 -> 1
      [] level = 2 -> 3
      [] level = 3 -> 7
      [] level = 4 -> 14
      [] level = 5 -> 30

\* C8: a review at time t that leaves a word at level L sets nextReview to
\* t + interval(L) days; until the next review the word is absent from
\* getWordsForReview() before that time and present from it on.
C8_Schedule ==
    \A k \in DOMAIN progress :
        LET dueAt == log[k][1].date + C8_IntervalDays(progress[k].srsLevel) * TicksPerDay
        IN  /\ progress[k].nextReview = dueAt
            /\ k \in Catalog =>
                 ((k \in Range(getWordsForReview(progress, now))) <=> (now >= dueAt))

\* a word reviewed up to level 5 in the second half of a day comes due 30 days on
C8_Witness ==
    /\ HasRecord(progress, "w1")
    /\ progress["w1"].srsLevel = 5
    /\ log["w1"][1].date = 1
    /\ now = 1 + 30 * TicksPerDay
    /\ "w1" \in Range(getWordsForReview(progress, now))

\* C9: getWordsForReview() returns exactly the catalog words with no record
\* or with nextReview <= now, each once; with no record at all it returns the
\* whole catalog.
C9_DueExactly ==
    LET due == getWordsForReview(progress, now)
    IN  /\ Range(due) = {w \in Catalog :
                            \/ w \notin DOMAIN progress
                            \/ progress[w].nextReview <= now}
        /\ Len(due) = Cardinality(Range(due))
        /\ progress = emptyProgress => due = AllWords

\* one reviewed word has just come due, the other reviewed word is not yet due
C9_Witness ==
    /\ phase = "ready"
    /\ HasRecord(progress, "w1")
    /\ HasRecord(progress, "w2")
    /\ progress["w1"].nextReview = now
    /\ progress["w2"].nextReview > now
    /\ getWordsForReview(progress, now) = <<"w1">>

\* C10: getStruggleWords() returns exactly the catalog words whose record has
\* srsLevel <= 1 and incorrectCount >= 2, and never a word without a record.
C10_StruggleExactly ==
    LET struggle == getStruggleWords(progress)
    IN  /\ Range(struggle) = {w \in Catalog \cap DOMAIN progress :
                                 /\ progress[w].srsLevel <= 1
                                 /\ progress[w].incorrectCount >= 2}
        /\ Len(struggle) = Cardinality(Range(struggle))

\* the reviewed word struggles, the word never reviewed is not returned
C10_Witness ==
    /\ getStruggleWords(progress) = <<"w1">>
    /\ progress["w1"].srsLevel = 1
    /\ progress["w1"].correctCount >= 1
    /\ ~HasRecord(progress, "w2")

\* the level a catalog word counts at: its record's, 0 without a record
LevelOf(w) == IF HasRecord(progress, w) THEN progress[w].srsLevel ELSE 0

\* C11: every catalog word is returned by getWordsBySRSLevel(L) for exactly
\* one L in 0..5, namely the srsLevel of its record, or 0 when it has no record.
C11_ByLevelPartitions ==
    \A w \in Catalog : \A level \in 0..MaxLevel :
        (w \in Range(getWordsBySRSLevel(progress, level))) <=> (level = LevelOf(w))

\* C12: levelCounts[L] is the number of catalog words at level L (no record
\* counting as 0), the six counts add up to the catalog's size, and
\* masteredCount = levelCounts[4] + levelCounts[5], learningCount =
\* levelCounts[1] + levelCounts[2], newCount = levelCounts[0]: a word at level
\* 3 is in none of the three.
C12_LevelCounts ==
    LET at(level) == Cardinality({w \in Catalog : LevelOf(w) = level})
    IN  \A counts \in {levelCounts(progress)} :
        /\ \A level \in 0..MaxLevel : counts[level] = at(level)
        /\ counts[0] + counts[1] + counts[2] + counts[3] + counts[4] + counts[5]
           = Cardinality(Catalog)
        /\ masteredCount(counts) = at(4) + at(5)
        /\ learningCount(counts) = at(1) + at(2)
        /\ newCount(counts) = at(0)
        /\ masteredCount(counts) + learningCount(counts) + newCount(counts)
           = Cardinality(Catalog) - at(3)

\* one word at level 3, counted in none of the three, the other without a record
C12_Witness ==
    /\ HasRecord(progress, "w1") /\ progress["w1"].srsLevel = 3
    /\ ~HasRecord(progress, "w2")
    /\ \E snapshot \in {getStatistics(progress, stats, now)} :
           /\ snapshot.levelCounts[3] = 1
           /\ snapshot.masteredCount = 0
           /\ snapshot.learningCount = 0
           /\ snapshot.newCount = 1

\* n / d to the nearest integer, a tie going up
RoundHalfUp(n, d) == (2 * n + d) \div (2 * d)

\* C13: accuracy is round(100 * correct / total) over all the ReviewRecords
\* held in the histories of all Progress records, 0 when no record holds any
\* history, and always an integer in 0..100.
C13_AccuracyRounded ==
    \A totals \in {HistoryTotals(progress, DOMAIN progress)} :
        \A snapshot \in {getStatistics(progress, stats, now)} :
            /\ snapshot.accuracy \in 0..100
            /\ totals.recentTotal = 0 => snapshot.accuracy = 0
            /\ totals.recentTotal > 0 =>
                   snapshot.accuracy
                       = RoundHalfUp(100 * totals.recentCorrect, totals.recentTotal)

\* a call of updateProgress: it logged a review, or its updater threw
IsReviewCall == (\E k \in Keys : IsReviewOf(k)) \/ phase' /= phase

IsSessionStep == idCounter' = idCounter + 1

\* C14: every recordReview, of a new word or of a known one, raises
\* totalReviews by exactly 1; recordSession leaves it alone; it never goes
\* down except through resetAll.
C14_TotalReviews ==
    [][/\ IsReviewCall => stats'.totalReviews = stats.totalReviews + 1
       /\ IsSessionStep => stats'.totalReviews = stats.totalReviews
       /\ ~IsResetStep => stats'.totalReviews >= stats.totalReviews]_vars

\* C15: quizHistory never holds more than 100 sessions; after n recordSession
\* calls since the last reset it holds exactly the min(n, 100) most recent
\* ones, newest first (after 150 sessions the oldest 50 are gone).
C15_QuizHistory ==
    /\ Len(stats.quizHistory) <= 100
    /\ Len(stats.quizHistory) = Min(Len(sessionLog), 100)
    /\ \A i \in 1..Len(stats.quizHistory) : stats.quizHistory[i] = sessionLog[i]

\* 150 sessions in a row: the 100 held are the sessions 51..150
C15_Witness ==
    /\ Len(sessionLog) = 150
    /\ Len(stats.quizHistory) = 100
    /\ stats.quizHistory[1].id = 150
    /\ stats.quizHistory[100].id = 51

\* how many consecutive days of the set S end at day d
RunEndingAt(S, d) ==
    Greatest({n \in 1..Cardinality(S) : \A i \in 0..(n - 1) : d - i \in S})

\* C16: after every recordReview currentStreak is the length of the maximal
\* run of consecutive calendar days in studyDays that ends at the latest date
\* in studyDays (D, D+1, D+2 gives 3; D, D+1, D+4 gives 1), however many
\* reviews fell on one day.
C16_CurrentStreak ==
    stats.totalReviews > 0 =>
        \A days \in {Range(stats.studyDays)} :
            stats.currentStreak = RunEndingAt(days, Greatest(days))

\* reviews on days 0, 1 and 4, two of them on one day: the streak is 1
C16_Witness ==
    /\ Range(stats.studyDays) = {0, 1, 4}
    /\ stats.totalReviews = 4
    /\ stats.currentStreak = 1

\* C17: studyDays never holds a date twice nor more than 365 dates; a review
\* on a date it holds leaves it unchanged, a review on a new date adds that
\* date, and beyond 365 dates the oldest one is dropped.
C17_StudyDays ==
    [][\A today \in {getTodayDate(now)} :
       \A before \in {Range(stats.studyDays)} :
       \A after \in {Range(stats'.studyDays)} :
           /\ Cardinality(after) = Len(stats'.studyDays)
           /\ Len(stats'.studyDays) <= 365
           /\ IsReviewCall =>
                  IF today \in before THEN stats'.studyDays = stats.studyDays
                  ELSE IF Len(stats.studyDays) < 365 THEN after = before \cup {today}
                  ELSE after = (before \ {Least(before)}) \cup {today}]_vars

\* a review on each of the days 0..366, twice on the first and the last:
\* the days 0 and 1 are gone
C17_Witness ==
    /\ stats.totalReviews = 369
    /\ Len(stats.studyDays) = 365
    /\ stats.studyDays[1] = 2
    /\ stats.studyDays[365] = 366

\* C18: after every recordReview longestStreak is the greater of the previous
\* longestStreak and the new currentStreak; 0 <= currentStreak <=
\* longestStreak always; longestStreak never goes down except through resetAll.
C18_LongestStreak ==
    [][/\ IsReviewCall =>
              stats'.longestStreak = Max(stats.longestStreak, stats'.currentStreak)
       /\ 0 <= stats'.currentStreak
       /\ stats'.currentStreak <= stats'.longestStreak
       /\ ~IsResetStep => stats'.longestStreak >= stats.longestStreak]_vars

\* a streak of two days, broken: the longest stays 2, the current is back to 1
C18_Witness ==
    /\ Range(stats.studyDays) = {0, 1, 4}
    /\ stats.longestStreak = 2
    /\ stats.currentStreak = 1

\* nothing has been recorded since the last resetProgress (or since the start)
NothingSinceReset == sessionLog = <<>> /\ \A k \in Keys : log[k] = <<>>

\* C19: resetAll, from whatever state, leaves the progress map empty and the
\* UserStats equal to the defaults (0, 0, 0, no date, no sessions, no study
\* days); a second resetAll changes nothing.
C19_ResetAll ==
    NothingSinceReset =>
        /\ DOMAIN progress = {}
        /\ stats = [totalReviews |-> 0, currentStreak |-> 0, longestStreak |-> 0,
                    lastStudyDate |-> NoDate, quizHistory |-> <<>>, studyDays |-> <<>>]

\* reset after a session was recorded and a day went by
C19_Witness ==
    /\ NothingSinceReset
    /\ idCounter > 0
    /\ now >= TicksPerDay
    /\ stats = defaultStats

IsBadBlob(blob) == Len(blob) > 0 /\ blob[1] \in {UnparseableText, NullText}

\* the render that applies what the load effect queued
IsLoadRender == log = log' /\ sessionLog = sessionLog' /\ queue /= <<>> /\ queue' = <<>>

\* C21: a startup that finds an unparseable or schema-mismatched blob does not
\* fail: it carries on with the empty default in place of that blob, the
\* progress map empty for a bad progress blob, the default UserStats for a bad
\* stats blob.
C21_StartupRecovers ==
    [][/\ phase' /= "crashed"
       /\ IsLoadRender /\ IsBadBlob(store.progress) => progress' = emptyProgress
       /\ IsLoadRender /\ IsBadBlob(store.stats) => stats' = defaultStats]_vars

\* C22: at startup a blob that is missing leaves the empty default in memory
\* (empty progress map, default UserStats), and a blob that holds a stored
\* Progress map or UserStats record becomes the in-memory state.
C22_StartupLoads ==
    [][/\ phase = "unmounted" /\ phase' = "ready" =>
            progress' = emptyProgress /\ stats' = defaultStats
       /\ IsLoadRender =>
            /\ store.progress = <<>> => progress' = emptyProgress
            /\ store.stats = <<>> => stats' = defaultStats
            /\ \A p \in StoredProgress :
                    store.progress = <<StringifyProgress(p)>> => progress' = p
            /\ \A s \in StoredStats :
                    store.stats = <<StringifyStats(s)>> => stats' = s]_vars

C22_Witness ==
    /\ Settled
    /\ NothingSinceReset
    /\ idCounter = 0
    /\ DOMAIN progress = {"w1", "x"}
    /\ progress["w1"].history[1].responseTime = NoResponseTime
    /\ stats.totalReviews = 1
    /\ Len(stats.quizHistory) = 1

\* C23: the stats blob is written only from a UserStats with totalReviews > 0
\* or a non-empty quizHistory, and then it is that UserStats; the default
\* UserStats never produces a write.
C23_StatsWriteGuard ==
    [][store'.stats /= store.stats /\ store'.stats /= <<>> =>
            /\ stats'.totalReviews > 0 \/ Len(stats'.quizHistory) > 0
            /\ stats' /= defaultStats
            /\ store'.stats = <<StringifyStats(stats')>>]_vars

C23_Witness ==
    /\ Settled
    /\ stats.totalReviews = 0
    /\ Len(sessionLog) = 1
    /\ Len(stats.quizHistory) = 1
    /\ store.stats = <<StringifyStats(stats)>>

\* the app is starting: not mounted yet, or the loaded state not yet rendered
\* and saved
StartingUp == phase = "unmounted" \/ queue /= <<>> \/ unsaved /= {}

\* C30: starting up never changes the store: from the mount until the first
\* recordReview, recordSession or resetAll both blobs stay what they were (the
\* initial empty state is not written over stored data, an absent blob stays
\* absent).
C30_StartupKeepsStore ==
    [][StartingUp => store' = store]_vars

C30_Witness ==
    /\ Settled
    /\ NothingSinceReset
    /\ idCounter = 0
    /\ DOMAIN progress = {"w1"}
    /\ store.progress = <<StringifyProgress(progress)>>
    /\ stats = defaultStats
    /\ store.stats = <<>>

\* C25: over recordReview and recordSession no record disappears and the
\* correctCount and the incorrectCount of every record never go down; only
\* resetAll lowers them.
C25_CountsNeverDecrease ==
    [][~IsResetStep =>
            \A k \in DOMAIN progress :
                /\ k \in DOMAIN progress'
                /\ progress'[k].correctCount >= progress[k].correctCount
                /\ progress'[k].incorrectCount >= progress[k].incorrectCount]_vars

C25_Witness ==
    /\ DOMAIN progress = {"w1"}
    /\ progress["w1"].correctCount = 1
    /\ progress["w1"].incorrectCount = 1
    /\ progress["w1"].history[1].correct = FALSE
    /\ Len(stats.quizHistory) = 1

\* C26: a failed review never lengthens a word's schedule: an incorrect review
\* of a word that has a record never yields a higher srsLevel, nor a longer
\* review interval, than the word had before.
C26_FailedReviewNeverLengthens ==
    [][\A k \in Keys :
        (HasRecord(progress, k) /\ IsReviewOf(k) /\ ~log'[k][1].correct) =>
            /\ progress'[k].srsLevel <= progress[k].srsLevel
            /\ SrsInterval(progress'[k].srsLevel) <= SrsInterval(progress[k].srsLevel)]_vars

\* the catalog sizes of the degenerate case and of this catalog
CatalogSizes == {0, Len(AllWords)}

\* C27: every percentage or ratio computed from the engine state is 0, not NaN
\* and not an error, when its denominator is 0: the snapshot accuracy over no
\* history entries, the mastery percentage and the per-level shares over an
\* empty catalog, the score of a listed session over totalQuestions = 0.
C27_RatiosGuarded ==
    /\ HistoryTotals(progress, DOMAIN progress).recentTotal = 0 => accuracy(progress) = 0
    /\ \A counts \in {levelCounts(progress)} :
        /\ \A totalWords \in CatalogSizes :
                totalWords = 0 => masteryPercentage(masteredCount(counts), totalWords) = 0
        /\ \A totalWords \in CatalogSizes, level \in 0..MaxLevel :
                totalWords = 0 => levelPercentage(counts[level], totalWords) = Finite(0)
    /\ \A sessions \in {recentSessions(stats.quizHistory)} :
        \A i \in 1..Len(sessions) :
            sessions[i].data.totalQuestions = 0 => sessionPercentage(sessions[i]) = Finite(0)

\* the calendar days of the reviews recorded since the last reset
ReviewDays ==
    UNION {{getTodayDate(log[k][i].date) : i \in 1..Len(log[k])} : k \in Keys}

\* C29: lastStudyDate is the most recent calendar date on which a review was
\* recorded and is a member of studyDays; it is empty exactly when
\* totalReviews = 0.
C29_LastStudyDate ==
    /\ stats.totalReviews = 0 <=> stats.lastStudyDate = NoDate
    /\ stats.totalReviews = 0 <=> ReviewDays = {}
    /\ stats.totalReviews > 0 =>
            /\ stats.lastStudyDate = Greatest(ReviewDays)
            /\ stats.lastStudyDate \in Range(stats.studyDays)

\* reviews on day 0 and on day 2, seen on day 3
C29_Witness ==
    /\ ReviewDays = {0, 2}
    /\ stats.lastStudyDate = 2
    /\ getTodayDate(now) = 3

\* the number of reviews issued since the last reset
TotalLogged == Cardinality(UNION {{<<k, i>> : i \in 1..Len(log[k])} : k \in Keys})

\* the progress map p and the UserStats s hold every review and every session
\* issued since the last reset, each applied after the one before it
Applied(p, s) ==
    /\ s.totalReviews = TotalLogged
    /\ \A k \in Keys :
        IF log[k] = <<>>
        THEN k \notin DOMAIN p
        ELSE /\ k \in DOMAIN p
             /\ p[k].correctCount + p[k].incorrectCount = Len(log[k])
             /\ p[k].correctCount = Cardinality({i \in 1..Len(log[k]) : log[k][i].correct})
             /\ p[k].history = SliceFirst(log[k], HistoryCap)
    /\ s.quizHistory = SliceFirst(sessionLog, QuizHistoryCap)

\* both blobs hold what is in memory, as far as something was recorded
Saved ==
    /\ (\E k \in Keys : log[k] /= <<>>) =>
            /\ store.progress = <<StringifyProgress(progress)>>
            /\ store.stats = <<StringifyStats(stats)>>
    /\ sessionLog /= <<>> => store.stats = <<StringifyStats(stats)>>

\* C24: every recordReview and every recordSession triggers persistence: the
\* render and the saves it triggered do run, and once they have run with no
\* further operation the progress blob equals the in-memory progress map and
\* the stats blob the in-memory UserStats; before the save runs the in-memory
\* state already holds the new reviews and sessions.
C24_Persistence ==
    /\ [](Settled => Saved)
    /\ [](phase = "ready" /\ queue = <<>> => Applied(progress, stats))
    /\ (queue /= <<>>) ~> Settled

\* the render of a batch, or its failure
IsRenderStep == queue /= <<>> /\ (queue' = <<>> \/ phase' = "crashed")

\* C28: no update is lost: of the reviews and sessions issued back to back
\* before a render, each is applied to the state the one before it left: after
\* the render totalReviews and the counters of each word have risen by the
\* number of reviews issued, and every session issued is in quizHistory.
C28_NoLostUpdate ==
    [][IsRenderStep => Applied(progress', stats')]_vars

\* C31: a review of w leaves the records of every other word, and quizHistory,
\* as they were; a session leaves the progress map, totalReviews, studyDays,
\* currentStreak, longestStreak and lastStudyDate as they were.
C31_Frame ==
    [][/\ \A w \in Keys :
            IsReviewOf(w) =>
                /\ \A other \in DOMAIN progress \ {w} :
                        other \in DOMAIN progress' /\ progress'[other] = progress[other]
                /\ DOMAIN progress' = DOMAIN progress \cup {w}
                /\ stats'.quizHistory = stats.quizHistory
       /\ IsSessionStep =>
                /\ progress' = progress
                /\ stats'.totalReviews = stats.totalReviews
                /\ stats'.studyDays = stats.studyDays
                /\ stats'.currentStreak = stats.currentStreak
                /\ stats'.longestStreak = stats.longestStreak
                /\ stats'.lastStudyDate = stats.lastStudyDate]_vars

\* two words reviewed, the second after a session was recorded
C31_Witness ==
    /\ DOMAIN progress = {"w1", "w2"}
    /\ Len(stats.quizHistory) = 1
    /\ stats.totalReviews = 2
    /\ sessionLog[1].date < log["w2"][1].date

\* the attempts the claim allows: 1 on hard, 2 on easy and medium
AllowedAttempts == IF quiz.selectedDifficulty = "hard" THEN 1 ELSE 2

\* a click on an option of the question being played
IsPickStep ==
    /\ quiz.phase = "playing"
    /\ quiz'.phase = "playing"
    /\ quiz'.currentIndex = quiz.currentIndex
    /\ quiz'.attemptCount = quiz.attemptCount + 1

\* the option picked in a pick step
Picked == IF quiz'.questionResolved THEN quiz'.selectedAnswer ELSE quiz'.wrongFirstAttempt

\* the call onResult(currentWord.pinyin, correct, selectedMode) for the current question
ResultCall(correct) ==
    [index |-> quiz.currentIndex, pinyin |-> quiz.quizWords[quiz.currentIndex + 1],
     correct |-> correct, mode |-> quiz.selectedMode]

\* C32: each question of a quiz reports one outcome, when it is resolved and
\* not before: true if the correct option is picked within the allowed
\* attempts (wrong-then-right on easy and medium counts as correct), false on
\* the last allowed wrong pick; a first wrong pick on easy or medium reports
\* nothing, and a pick after the resolution changes nothing.
C32_OneResultPerQuestion ==
    [][/\ quiz'.phase \in {"playing", "results"} =>
            /\ Len(quiz'.onResult) =
                    (IF quiz'.phase = "results" THEN Len(quiz'.quizWords)
                     ELSE quiz'.currentIndex + (IF quiz'.questionResolved THEN 1 ELSE 0))
            /\ \A i \in 1..Len(quiz'.onResult) :
                    /\ quiz'.onResult[i].index = i - 1
                    /\ quiz'.onResult[i].pinyin = quiz'.quizWords[i]
       /\ quiz.phase = "playing" /\ quiz.questionResolved
                /\ quiz'.phase = "playing" /\ quiz'.currentIndex = quiz.currentIndex =>
            quiz' = quiz
       /\ IsPickStep =>
            /\ quiz.attemptCount < AllowedAttempts
            /\ IF Picked = quiz.quizWords[quiz.currentIndex + 1]
               THEN /\ quiz'.questionResolved
                    /\ quiz'.onResult = Append(quiz.onResult, ResultCall(TRUE))
               ELSE IF quiz'.attemptCount = AllowedAttempts
               THEN /\ quiz'.questionResolved
                    /\ quiz'.onResult = Append(quiz.onResult, ResultCall(FALSE))
               ELSE /\ ~quiz'.questionResolved
                    /\ quiz'.onResult = quiz.onResult]_vars

\* an easy quiz at its end: one question right at the second attempt, one
\* wrong twice, two right at once
C32_Witness ==
    /\ quiz.phase = "results"
    /\ quiz.selectedDifficulty = "easy"
    /\ quiz.score = [correct |-> 3, incorrect |-> 1, firstAttempt |-> 2, secondAttempt |-> 1]
    /\ Len(quiz.onResult) = 4
    /\ ~quiz.onResult[4].correct

\* a step in which the quiz calls onComplete
IsCompleteCall == Len(quiz'.onComplete) > Len(quiz.onComplete)

\* the totals of a reported session agree
ConsistentTotals(session) ==
    /\ session.correctAnswers + session.incorrectAnswers = session.totalQuestions
    /\ session.totalQuestions = Len(session.wordsReviewed)
    /\ session.firstAttemptCorrect + session.secondAttemptCorrect = session.correctAnswers

\* C33: onComplete is called only by Next on the last question, after every
\* question of the run has been resolved, once per run and never by an exit;
\* the session it reports has correctAnswers + incorrectAnswers =
\* totalQuestions = length of wordsReviewed and firstAttemptCorrect +
\* secondAttemptCorrect = correctAnswers.
C33_ConsistentTotals ==
    [][/\ IsCompleteCall =>
            /\ quiz.phase = "playing"
            /\ quiz.questionResolved
            /\ quiz.currentIndex + 1 = Len(quiz.quizWords)
            /\ Len(quiz.onResult) = Len(quiz.quizWords)
            /\ quiz.onComplete = <<>>
            /\ Len(quiz'.onComplete) = 1
            /\ quiz'.onExit = quiz.onExit
            /\ quiz'.onComplete[1].totalQuestions = Len(quiz.quizWords)
            /\ quiz'.onComplete[1].wordsReviewed = quiz.quizWords
            /\ ConsistentTotals(quiz'.onComplete[1])
       /\ quiz'.onExit /= quiz.onExit => ~IsCompleteCall]_vars

\* a hard quiz completed with two questions right and two wrong
C33_Witness ==
    /\ quiz.phase = "results"
    /\ Len(quiz.onComplete) = 1
    /\ quiz.onComplete[1].difficulty = "hard"
    /\ quiz.onComplete[1].totalQuestions = 4
    /\ quiz.onComplete[1].correctAnswers = 2
    /\ quiz.onComplete[1].incorrectAnswers = 2

\* C34: every Progress record has correctCount + incorrectCount >= 1, equal to
\* the number of reviews of its word since the last reset, and a history of
\* min(10, correctCount + incorrectCount) entries.
C34_CountsMatchReviews ==
    \A k \in DOMAIN progress :
        /\ progress[k].correctCount + progress[k].incorrectCount >= 1
        /\ progress[k].correctCount + progress[k].incorrectCount = Len(log[k])
        /\ Len(progress[k].history) =
                (IF progress[k].correctCount + progress[k].incorrectCount < 10
                 THEN progress[k].correctCount + progress[k].incorrectCount ELSE 10)

\* eleven reviews of a word, one of them incorrect: ten are held
C34_Witness ==
    /\ "w1" \in DOMAIN progress
    /\ progress["w1"].correctCount + progress["w1"].incorrectCount = 11
    /\ progress["w1"].incorrectCount >= 1
    /\ Len(progress["w1"].history) = 10

\* the sum over all Progress records of correctCount + incorrectCount
CountedReviews(p) ==
    Cardinality(UNION {{<<k, i>> : i \in 1..(p[k].correctCount + p[k].incorrectCount)} :
                       k \in DOMAIN p})

\* C35: starting from the empty state, in every state a query can observe the
\* sum over all Progress records of correctCount + incorrectCount equals
\* totalReviews: the two updates of one review are committed by one render,
\* and a reset empties both.
C35_CountsSumToTotal == CountedReviews(progress) = stats.totalReviews

\* three reviews over two words committed, the last by the latest render
C35_Witness ==
    /\ phase = "ready"
    /\ queue = <<>>
    /\ Cardinality(DOMAIN progress) = 2
    /\ stats.totalReviews = 3
    /\ CountedReviews(progress) = 3

\* C36: a Progress record is at srsLevel 0 if and only if its word has been
\* reviewed exactly once and that review was incorrect (correctCount 0,
\* incorrectCount 1, one history entry); hence every word getStruggleWords
\* returns is at srsLevel exactly 1.
C36_LevelZeroIsOneMiss ==
    /\ \A k \in DOMAIN progress :
            (progress[k].srsLevel = 0) <=>
                /\ Len(log[k]) = 1
                /\ ~log[k][1].correct
                /\ progress[k].correctCount = 0
                /\ progress[k].incorrectCount = 1
                /\ Len(progress[k].history) = 1
    /\ \A w \in Range(getStruggleWords(progress)) : progress[w].srsLevel = 1

\* a word that climbed, fell back to level 1 and is listed as a struggle word
C36_Witness ==
    /\ "w1" \in Range(getStruggleWords(progress))
    /\ progress["w1"].correctCount >= 2
    /\ progress["w1"].incorrectCount >= 2
    /\ ~log["w1"][1].correct

\* C37: for every Progress record, streak is the number of consecutive correct
\* reviews since the word's last incorrect review (or since creation): streak
\* <= correctCount, streak = 0 exactly when the newest history entry is
\* incorrect, and when streak < history.length the newest `streak` history
\* entries are correct and the next one is incorrect.
C37_StreakIsCorrectRun ==
    \A k \in DOMAIN progress :
        LET r == progress[k]
        IN  /\ r.streak = CorrectRun(log[k])
            /\ r.streak <= r.correctCount
            /\ (r.streak = 0) <=> ~r.history[1].correct
            /\ r.streak < Len(r.history) =>
                    /\ \A i \in 1..r.streak : r.history[i].correct
                    /\ ~r.history[r.streak + 1].correct

\* a full history of ten out of eleven reviews, the newest three correct after
\* an incorrect one
C37_Witness ==
    /\ "w1" \in DOMAIN progress
    /\ Len(log["w1"]) = 11
    /\ Len(progress["w1"].history) = 10
    /\ progress["w1"].streak = 3
    /\ progress["w1"].correctCount > 3

\* C38: the level list and the level histogram agree: in every reachable state
\* and for every level L in 0..5, the number of words getWordsBySRSLevel(L)
\* returns equals the levelCounts[L] of getStatistics().
C38_ListsMatchHistogram ==
    \A level \in 0..MaxLevel :
        Len(getWordsBySRSLevel(progress, level)) = levelCounts(progress)[level]

\* a word getStruggleWords returns
IsStruggleWord(p, w) == w \in Range(getStruggleWords(p))

\* C39: a single correct review of a word getStruggleWords returns removes it
\* from the list; the incorrectCount of a record never decreases, so a word
\* that has been listed is listed again whenever its record is back at
\* srsLevel 1 (resetProgress, which removes the record, ends this).
C39_StruggleLeavesAndReturns ==
    [][\A w \in Catalog :
        /\ (IsStruggleWord(progress, w) /\ IsReviewOf(w) /\ log'[w][1].correct)
                => ~IsStruggleWord(progress', w)
        /\ (HasRecord(progress, w) /\ HasRecord(progress', w))
                => progress'[w].incorrectCount >= progress[w].incorrectCount
        /\ (/\ HasRecord(progress, w)
            /\ progress[w].incorrectCount >= 2
            /\ HasRecord(progress', w)
            /\ progress'[w].srsLevel <= 1)
                => IsStruggleWord(progress', w)]_vars

\* a struggle word answered right twice (off the list, level 3) and then
\* wrong: back at level 1 and listed again
C39_Witness ==
    /\ Len(log["w1"]) = 5
    /\ ~log["w1"][1].correct
    /\ log["w1"][2].correct
    /\ log["w1"][3].correct
    /\ ~log["w1"][4].correct
    /\ ~log["w1"][5].correct
    /\ progress["w1"].srsLevel = 1
    /\ IsStruggleWord(progress, "w1")

====
